---- MODULE Spec2Model ----
(***************************************************************************)
(* Model of the Jelou transliteration pipeline (src/jelou):                *)
(*   arpabet_to_ipa.py   ARPABET tokens -> IPA with a stress sentinel      *)
(*   phonetic_engine.py  IPA -> Spanish-legible spelling                   *)
(*   cmu_dictionary.py   corpus loading and variant selection              *)
(*   jelou_api.py        translate_word / translate_ipa                    *)
(*                                                                         *)
(* A Python str is a sequence of one-character elements.  ASCII characters *)
(* stand for themselves; a non-ASCII character is written by name:         *)
(*   "<script-a>" U+0251   "<ash>" U+00E6        "<turned-v>" U+028C       *)
(*   "<open-o>" U+0254     "<upsilon>" U+028A    "<small-cap-i>" U+026A    *)
(*   "<epsilon>" U+025B    "<rhotic-epsilon>" U+025D                       *)
(*   "<rhotic-schwa>" U+025A   "<schwa>" U+0259  "<length>" U+02D0         *)
(*   "<esh>" U+0283        "<ezh>" U+0292        "<theta>" U+03B8          *)
(*   "<eth>" U+00F0        "<eng>" U+014B                                  *)
(*   "<primary-mark>" U+02C8   "<secondary-mark>" U+02CC                   *)
(*   "<a-acute>" U+00E1    "<e-acute>" U+00E9    "<i-acute>" U+00ED        *)
(*   "<o-acute>" U+00F3    "<u-acute>" U+00FA                              *)
(***************************************************************************)
EXTENDS Integers, Sequences, FiniteSets, TLC

VARIABLES
    pc,                 \* position of the caller in the pipeline
    arpabet_sequence,   \* argument of arpabet_to_ipa
    ipa,                \* argument of ipa_to_spanish
    result,             \* value returned by ipa_to_spanish
    result2,            \* value returned by ipa_to_spanish applied to result
    corpus,             \* the lines of the dictionary file
    lpc,                \* position of _load_from_file: "idle" or "reading"
    line_no,            \* index of the next line the loop of _load_from_file reads
    _dict,              \* CMUDictionary._dict: word -> stored pronunciation
    _arpabet_cache,     \* local of _load_from_file: word -> raw stored variant
    current_score,      \* local of _load_from_file (<<>> while unbound)
    new_score,          \* local of _load_from_file (<<>> while unbound)
    runs,               \* completed runs of _load_from_file on this store
    first_dict,         \* _dict as the first completed run left it
    _loaded,            \* CMUDictionary._loaded
    cache_file,         \* CACHE_FILE: None while it does not exist, else its lines
    net_ok,             \* whether urlopen(CMU_DICT_URL) succeeds
    tpc,                \* per caller: position inside lookup / load
    todo,               \* per caller: store calls its API call has still to make
    calls,              \* per caller: API calls made so far
    began_loaded,       \* per caller: _loaded when its API call began
    attempts,           \* per caller: fetch attempts of its current load()
    outcome,            \* per caller: how its last API call ended
    file_reads,         \* executions of _load_from_file started
    fetches,            \* executions of urlopen started
    read_line,          \* per caller: index of the next line its _load_from_file reads
    read_cache          \* per caller: the _arpabet_cache of its _load_from_file

pipe_vars == <<pc, arpabet_sequence, ipa, result, result2>>

store_vars == <<corpus, lpc, line_no, _dict, _arpabet_cache, current_score,
                new_score, runs, first_dict>>

call_vars == <<_loaded, cache_file, net_ok, tpc, todo, calls, began_loaded,
               attempts, outcome, file_reads, fetches, read_line, read_cache>>

vars == <<pipe_vars, store_vars, call_vars>>

-----------------------------------------------------------------------------
(* Python str primitives                                                   *)

\* str.upper() / str.lower() on the ASCII letters; other characters are kept.
UpperOf ==
    [c \in {"a","b","c","d","e","f","g","h","i","j","k","l","m","n","o","p",
            "q","r","s","t","u","v","w","x","y","z"} |->
        CASE c = "a" -> "A" [] c = "b" -> "B" [] c = "c" -> "C" [] c = "d" -> "D"
          [] c = "e" -> "E" [] c = "f" -> "F" [] c = "g" -> "G" [] c = "h" -> "H"
          [] c = "i" -> "I" [] c = "j" -> "J" [] c = "k" -> "K" [] c = "l" -> "L"
          [] c = "m" -> "M" [] c = "n" -> "N" [] c = "o" -> "O" [] c = "p" -> "P"
          [] c = "q" -> "Q" [] c = "r" -> "R" [] c = "s" -> "S" [] c = "t" -> "T"
          [] c = "u" -> "U" [] c = "v" -> "V" [] c = "w" -> "W" [] c = "x" -> "X"
          [] c = "y" -> "Y" [] c = "z" -> "Z"]

LowerOf ==
    [c \in {UpperOf[x] : x \in DOMAIN UpperOf} |->
        CHOOSE x \in DOMAIN UpperOf : UpperOf[x] = c]

upper(s) == [i \in 1..Len(s) |-> IF s[i] \in DOMAIN UpperOf THEN UpperOf[s[i]] ELSE s[i]]

lower(s) == [i \in 1..Len(s) |-> IF s[i] \in DOMAIN LowerOf THEN LowerOf[s[i]] ELSE s[i]]

\* s[i:i+len(pat)] == pat
MatchAt(s, i, pat) ==
    /\ i + Len(pat) - 1 <= Len(s)
    /\ \A k \in 1..Len(pat) : s[i + k - 1] = pat[k]

startswith(s, pat) == MatchAt(s, 1, pat)

endswith(s, pat) == Len(pat) <= Len(s) /\ MatchAt(s, Len(s) - Len(pat) + 1, pat)

\* pat in s
contains(s, pat) == \E i \in 1..Len(s) : MatchAt(s, i, pat)

\* s.find(pat) as a 1-based index; 0 when pat does not occur
find(s, pat) ==
    LET hits == {i \in 1..Len(s) : MatchAt(s, i, pat)}
    IN  IF hits = {} THEN 0 ELSE CHOOSE i \in hits : \A j \in hits : i <= j

\* str.replace(pat, rep) for a non-empty pat: leftmost, non-overlapping matches.
RECURSIVE replace(_, _, _)
replace(s, pat, rep) ==
    LET i == find(s, pat)
    IN  IF i = 0 THEN s
        ELSE SubSeq(s, 1, i - 1) \o rep
             \o replace(SubSeq(s, i + Len(pat), Len(s)), pat, rep)

\* str.rstrip(chars): drop the trailing characters that are in chars.
RECURSIVE rstrip(_, _)
rstrip(s, chars) ==
    IF Len(s) > 0 /\ s[Len(s)] \in chars THEN rstrip(SubSeq(s, 1, Len(s) - 1), chars)
    ELSE s

Whitespace == {" ", "\t", "\n"}

\* str.strip(): drop leading and trailing whitespace.
RECURSIVE lstrip(_, _)
lstrip(s, chars) ==
    IF Len(s) > 0 /\ s[1] \in chars THEN lstrip(Tail(s), chars) ELSE s

strip(s) == lstrip(rstrip(s, Whitespace), Whitespace)

\* str.split(): the maximal runs of non-whitespace characters, in order.
RECURSIVE SplitFrom(_, _, _)
SplitFrom(s, i, cur) ==
    IF i > Len(s) THEN (IF cur = <<>> THEN <<>> ELSE <<cur>>)
    ELSE IF s[i] \in Whitespace
         THEN (IF cur = <<>> THEN <<>> ELSE <<cur>>) \o SplitFrom(s, i + 1, <<>>)
         ELSE SplitFrom(s, i + 1, Append(cur, s[i]))

split(s) == SplitFrom(s, 1, <<>>)

\* str.split(maxsplit=1): the first run of non-whitespace characters, then
\* what follows the whitespace after it (kept as it is); fewer parts when
\* there is no such run or nothing follows it.
split_maxsplit_1(s) ==
    LET body == lstrip(s, Whitespace)
        gaps == {i \in 1..Len(body) : body[i] \in Whitespace}
    IN  IF body = <<>> THEN <<>>
        ELSE IF gaps = {} THEN <<body>>
        ELSE LET g    == CHOOSE i \in gaps : \A j \in gaps : i <= j
                 rest == lstrip(SubSeq(body, g + 1, Len(body)), Whitespace)
             IN  IF rest = <<>> THEN <<SubSeq(body, 1, g - 1)>>
                 ELSE <<SubSeq(body, 1, g - 1), rest>>

\* s.split(sep)[0]: the part of s before the first occurrence of sep.
split_first(s, sep) ==
    IF find(s, sep) = 0 THEN s ELSE SubSeq(s, 1, find(s, sep) - 1)

\* "".join(parts)
RECURSIVE join(_)
join(parts) == IF parts = <<>> THEN <<>> ELSE Head(parts) \o join(Tail(parts))

\* " ".join(parts): how a token sequence is written on a corpus line.
RECURSIVE JoinSpace(_)
JoinSpace(parts) ==
    IF parts = <<>> THEN <<>>
    ELSE IF Len(parts) = 1 THEN Head(parts)
    ELSE Head(parts) \o <<" ">> \o JoinSpace(Tail(parts))

\* s.count(x) for a list s
RECURSIVE count(_, _)
count(s, x) ==
    IF s = <<>> THEN 0 ELSE (IF Head(s) = x THEN 1 ELSE 0) + count(Tail(s), x)

-----------------------------------------------------------------------------
(* arpabet_to_ipa.py                                                       *)

\* The dict ARPABET_TO_IPA as its <<key, value>> items in insertion order.
ARPABET_TO_IPA == <<
    << <<"A","A">>, <<"<script-a>">> >>,
    << <<"A","E">>, <<"<ash>">> >>,
    << <<"A","H">>, <<"<turned-v>">> >>,
    << <<"A","O">>, <<"<open-o>">> >>,
    << <<"A","W">>, <<"a","<upsilon>">> >>,
    << <<"A","Y">>, <<"a","<small-cap-i>">> >>,
    << <<"E","H">>, <<"<epsilon>">> >>,
    << <<"E","R">>, <<"<rhotic-epsilon>">> >>,
    << <<"E","Y">>, <<"e","<small-cap-i>">> >>,
    << <<"I","H">>, <<"<small-cap-i>">> >>,
    << <<"I","Y">>, <<"i">> >>,
    << <<"O","W">>, <<"o","<upsilon>">> >>,
    << <<"O","Y">>, <<"<open-o>","<small-cap-i>">> >>,
    << <<"U","H">>, <<"<upsilon>">> >>,
    << <<"U","W">>, <<"u","<length>">> >>,
    << <<"B">>, <<"b">> >>,
    << <<"C","H">>, <<"t","<esh>">> >>,
    << <<"D">>, <<"d">> >>,
    << <<"D","H">>, <<"<eth>">> >>,
    << <<"F">>, <<"f">> >>,
    << <<"G">>, <<"g">> >>,
    << <<"H","H">>, <<"h">> >>,
    << <<"J","H">>, <<"d","<ezh>">> >>,
    << <<"K">>, <<"k">> >>,
    << <<"L">>, <<"l">> >>,
    << <<"M">>, <<"m">> >>,
    << <<"N">>, <<"n">> >>,
    << <<"N","G">>, <<"<eng>">> >>,
    << <<"P">>, <<"p">> >>,
    << <<"R">>, <<"r">> >>,
    << <<"S">>, <<"s">> >>,
    << <<"S","H">>, <<"<esh>">> >>,
    << <<"T">>, <<"t">> >>,
    << <<"T","H">>, <<"<theta>">> >>,
    << <<"V">>, <<"v">> >>,
    << <<"W">>, <<"w">> >>,
    << <<"Y">>, <<"j">> >>,
    << <<"Z">>, <<"z">> >>,
    << <<"Z","H">>, <<"<ezh>">> >> >>

\* key in d, d[key] for a dict given by its items
HasKey(d, key) == \E k \in 1..Len(d) : d[k][1] = key

Lookup(d, key) == d[CHOOSE k \in 1..Len(d) : d[k][1] = key][2]

STRESSED_VOWELS == {
    <<"A","A">>, <<"A","E">>, <<"A","H">>, <<"A","O">>, <<"A","W">>, <<"A","Y">>,
    <<"E","H">>, <<"E","R">>, <<"E","Y">>, <<"I","H">>, <<"I","Y">>, <<"O","W">>,
    <<"O","Y">>, <<"U","H">>, <<"U","W">> }

StressDigits == {"0", "1", "2"}

\* "~~STRESS~~"
STRESS == <<"~","~","S","T","R","E","S","S","~","~">>

\* A condition that forgets the vowel test: any token ending in "1".
IsPrimaryAnyToken(phoneme) == Len(phoneme) > 0 /\ phoneme[Len(phoneme)] = "1"

\* The condition of the first loop (lines 153-155): the token ends in "1" and
\* is a vowel once its trailing digits are stripped.
IsPrimaryVowel(phoneme) ==
    /\ Len(phoneme) > 0
    /\ phoneme[Len(phoneme)] = "1"
    /\ rstrip(phoneme, StressDigits) \in STRESSED_VOWELS

\* A scan that keeps the first tagged vowel instead of the last.
RECURSIVE StressScanFirst(_, _, _)
StressScanFirst(phonemes, i, found) ==
    IF i > Len(phonemes) THEN found
    ELSE StressScanFirst(phonemes, i + 1,
                         IF IsPrimaryVowel(phonemes[i]) /\ found = 0 THEN i ELSE found)

\* The first loop (lines 151-156): every tagged vowel overwrites the index, so
\* the last one stays; 0 stands for None (Python indices are shifted by one).
RECURSIVE StressScan(_, _, _)
StressScan(phonemes, i, found) ==
    IF i > Len(phonemes) THEN found
    ELSE StressScan(phonemes, i + 1, IF IsPrimaryVowel(phonemes[i]) THEN i ELSE found)

primary_stress_index(phonemes) == StressScan(phonemes, 1, 0)

\* The body of the second loop (lines 160-178) for the token at index i.
\* A second loop whose fallback keeps the token's case.
MapPhonemeKeepCase(phonemes, i, stress_index) ==
    LET clean_phoneme == rstrip(phonemes[i], StressDigits)
    IN  IF HasKey(ARPABET_TO_IPA, clean_phoneme)
        THEN (IF i = stress_index
              THEN STRESS \o Lookup(ARPABET_TO_IPA, clean_phoneme)
              ELSE Lookup(ARPABET_TO_IPA, clean_phoneme))
        ELSE clean_phoneme

MapPhoneme(phonemes, i, stress_index) ==
    LET clean_phoneme == rstrip(phonemes[i], StressDigits)
    IN  IF HasKey(ARPABET_TO_IPA, clean_phoneme)
        THEN (IF i = stress_index
              THEN STRESS \o Lookup(ARPABET_TO_IPA, clean_phoneme)
              ELSE Lookup(ARPABET_TO_IPA, clean_phoneme))
        ELSE lower(clean_phoneme)

\* ipa_result: the list of mapped pieces, one per token.
ipa_result(phonemes) ==
    LET idx == primary_stress_index(phonemes)
    IN  [i \in 1..Len(phonemes) |-> MapPhoneme(phonemes, i, idx)]

arpabet_to_ipa(s) ==
    IF s = <<>> THEN <<>>
    ELSE join(ipa_result(split(upper(s))))

arpabet_to_ipa_clean(s) == replace(arpabet_to_ipa(s), STRESS, <<>>)

-----------------------------------------------------------------------------
(* phonetic_engine.py                                                      *)

\* The rule dicts as their <<pattern, replacement>> items in insertion order.
COMPOUND_RULES == <<
    << <<"a","<small-cap-i>","<schwa>","r">>, <<"a","i","r">> >>,
    << <<"a","<upsilon>","<schwa>","r">>, <<"a","u","r">> >>,
    << <<"d","<ezh>">>, <<"y">> >>,
    << <<"t","<esh>">>, <<"c","h">> >>,
    << <<"<theta>">>, <<"z">> >>,
    << <<"<eth>">>, <<"d">> >>,
    << <<"<esh>">>, <<"s","h">> >>,
    << <<"<ezh>">>, <<"s","h">> >>,
    << <<"e","<schwa>","r">>, <<"e","r">> >> >>

VOWEL_RULES == <<
    << <<"i","<length>">>, <<"<i-acute>">> >>,
    << <<"<small-cap-i>">>, <<"i">> >>,
    << <<"<epsilon>">>, <<"e">> >>,
    << <<"<ash>">>, <<"a">> >>,
    << <<"<script-a>">>, <<"a">> >>,
    << <<"<turned-v>">>, <<"a">> >>,
    << <<"e">>, <<"e">> >>,
    << <<"<schwa>">>, <<"a">> >>,
    << <<"<open-o>">>, <<"o">> >>,
    << <<"<upsilon>">>, <<"u">> >>,
    << <<"a","<upsilon>">>, <<"a","u">> >>,
    << <<"o","<upsilon>">>, <<"o","u">> >>,
    << <<"u","<length>">>, <<"<u-acute>">> >>,
    << <<"<rhotic-epsilon>">>, <<"e","r">> >>,
    << <<"<rhotic-schwa>">>, <<"e","r">> >> >>

CONSONANT_RULES == <<
    << <<"h">>, <<"j">> >>,
    << <<"<eng>">>, <<"n","g">> >>,
    << <<"k">>, <<"k">> >>,
    << <<"s">>, <<"s">> >>,
    << <<"z">>, <<"z">> >>,
    << <<"w">>, <<"w">> >>,
    << <<"r">>, <<"r">> >>,
    << <<"l">>, <<"l">> >>,
    << <<"n">>, <<"n">> >>,
    << <<"m">>, <<"m">> >>,
    << <<"f">>, <<"f">> >>,
    << <<"v">>, <<"v">> >>,
    << <<"b">>, <<"b">> >>,
    << <<"p">>, <<"p">> >>,
    << <<"t">>, <<"t">> >>,
    << <<"d">>, <<"d">> >>,
    << <<"g">>, <<"g">> >> >>

STRESS_MAP == <<
    << <<"a","<upsilon>">>, <<"<a-acute>","u">> >>,
    << <<"a","<small-cap-i>">>, <<"<a-acute>","i">> >>,
    << <<"e","<small-cap-i>">>, <<"<e-acute>","i">> >>,
    << <<"o","<upsilon>">>, <<"<o-acute>","u">> >>,
    << <<"<open-o>","<small-cap-i>">>, <<"<o-acute>","i">> >>,
    << <<"i","<length>">>, <<"<i-acute>">> >>,
    << <<"u","<length>">>, <<"<u-acute>">> >>,
    << <<"<script-a>">>, <<"<a-acute>">> >>,
    << <<"<ash>">>, <<"<a-acute>">> >>,
    << <<"<turned-v>">>, <<"<a-acute>">> >>,
    << <<"<open-o>">>, <<"<o-acute>">> >>,
    << <<"<epsilon>">>, <<"<e-acute>">> >>,
    << <<"<rhotic-epsilon>">>, <<"<e-acute>","r">> >>,
    << <<"<small-cap-i>">>, <<"<i-acute>">> >>,
    << <<"i">>, <<"<i-acute>">> >>,
    << <<"<upsilon>">>, <<"<u-acute>">> >> >>

\* "~~A~~", the marker written in front of a decided accent
A_MARK == <<"~","~","A","~","~">>

TEMP_J == <<"~","~","~","T","E","M","P","_","J","~","~","~">>

TEMP_SH == <<"~","~","~","T","E","M","P","_","S","H","~","~","~">>

TEMP_CH == <<"~","~","~","T","E","M","P","_","C","H","~","~","~">>

\* sorted(items, key=lambda x: -len(x[0])): a stable sort, longest key first.
RECURSIVE SortedByLen(_, _)
SortedByLen(items, n) ==
    IF n = 0 THEN <<>>
    ELSE SelectSeq(items, LAMBDA it : Len(it[1]) = n) \o SortedByLen(items, n - 1)

MaxKeyLen(items) ==
    CHOOSE n \in {Len(items[k][1]) : k \in 1..Len(items)} :
        \A k \in 1..Len(items) : Len(items[k][1]) <= n

sorted_by_len(items) == SortedByLen(items, MaxKeyLen(items))

\* The statements of ipa_to_spanish, each a step on the working string:
\*   <<"replace", pat, rep>>   s = s.replace(pat, rep)
\*   <<"lower">>               s = s.lower()
\*   <<"final", v>>            if s.endswith(v + "y"): s = s[:-1] + "sh"
Step(s, st) ==
    CASE st[1] = "replace" -> replace(s, st[2], st[3])
      [] st[1] = "lower"   -> lower(s)
      [] st[1] = "final"   -> IF endswith(s, <<st[2], "y">>)
                              THEN SubSeq(s, 1, Len(s) - 1) \o <<"s","h">>
                              ELSE s

\* The steps lo..hi of a list run in order on s.  The list is halved so that
\* the evaluation stays shallow; the first half is complete before the second
\* half starts.
RECURSIVE RunSteps(_, _, _, _)
RunSteps(s, steps, lo, hi) ==
    IF lo > hi THEN s
    ELSE IF lo = hi THEN Step(s, steps[lo])
    ELSE LET mid  == (lo + hi) \div 2
             half == RunSteps(s, steps, lo, mid)
         IN  IF Len(half) >= 0 THEN RunSteps(half, steps, mid + 1, hi) ELSE half

Run(s, steps) == RunSteps(s, steps, 1, Len(steps))

\* for pat, rep in rules.items(): result = result.replace(pat, rep)
RuleSteps(rules) == [k \in 1..Len(rules) |-> <<"replace", rules[k][1], rules[k][2]>>]

\* Paso 1 (lines 147-149): sentinel + vowel becomes marker + accented vowel,
\* longest vowel pattern first; a sentinel left over is dropped.
StressPhase ==
    LET items == sorted_by_len(STRESS_MAP)
    IN  [k \in 1..Len(items) |->
            <<"replace", STRESS \o items[k][1], A_MARK \o items[k][2]>>]
        \o << <<"replace", STRESS, <<>> >> >>

\* Paso 1b-3 (lines 152-159)
NormalizePhase == <<
    <<"lower">>,
    <<"replace", <<"<primary-mark>">>, <<>> >>,
    <<"replace", <<"<secondary-mark>">>, <<>> >>,
    <<"replace", <<"j">>, TEMP_J>> >>

\* Paso 4 (lines 162-163)
CompoundPhase == RuleSteps(COMPOUND_RULES)

\* A protection step that forgets the digraph "sh".
ProtectPhaseChOnly == << <<"replace", <<"c","h">>, TEMP_CH>> >>

\* An engine that protects neither digraph.
ProtectPhaseNone == << >>

\* Paso 5 (lines 167-168)
ProtectPhase == <<
    <<"replace", <<"s","h">>, TEMP_SH>>,
    <<"replace", <<"c","h">>, TEMP_CH>> >>

\* Paso 6 (lines 171-172)
VowelPhase == RuleSteps(VOWEL_RULES)

\* Paso 7 (lines 175-176)
ConsonantPhase == RuleSteps(CONSONANT_RULES)

\* Paso 8 (lines 179-181)
RestorePhase == <<
    <<"replace", TEMP_J, <<"i">> >>,
    <<"replace", TEMP_SH, <<"s","h">> >>,
    <<"replace", TEMP_CH, <<"c","h">> >> >>

\* A context step without the word-final correction.
ContextPhaseNoFinal == << <<"replace", <<"p","j">>, <<"p","i">> >> >>

\* Paso 9 (lines 184-188): the loop over the vowels, then pj -> pi
ContextPhase ==
    LET vocales == <<"a", "e", "i", "o", "u", "<a-acute>", "<e-acute>",
                     "<i-acute>", "<o-acute>", "<u-acute>">>
    IN  [k \in 1..Len(vocales) |-> <<"final", vocales[k]>>]
        \o << <<"replace", <<"p","j">>, <<"p","i">> >> >>

\* Paso 10 (lines 191-196)
CleanupPhase == <<
    <<"replace", <<"n","g","k">>, <<"n","k">> >>,
    <<"replace", <<"n","g","g">>, <<"n","g">> >>,
    <<"replace", <<"<i-acute>","i">>, <<"<i-acute>","e">> >>,
    <<"replace", <<"i","i">>, <<"i","e">> >> >>

\* A last step that looks for the marker as it was inserted, in upper case.
UnmarkPhaseUpper == << <<"replace", A_MARK, <<>> >> >>

\* Paso 11 (line 199)
UnmarkPhase == << <<"replace", <<"~","~","a","~","~">>, <<>> >> >>

EngineSteps ==
    StressPhase \o NormalizePhase \o CompoundPhase \o ProtectPhase \o VowelPhase
    \o ConsonantPhase \o RestorePhase \o ContextPhase \o CleanupPhase \o UnmarkPhase

ipa_to_spanish(s) == Run(s, EngineSteps)

-----------------------------------------------------------------------------
(* cmu_dictionary.py                                                       *)

\* Runs of _load_from_file on one store.
MaxRuns == 2

\* Optional[str]: None is the empty sequence, a value v the sequence <<v>>.
None == <<>>

Some(v) == <<v>>

\* Python dict as a function from keys to values.
EmptyDict == [w \in {} |-> <<>>]

\* d[key] = value
Put(d, key, value) == [w \in DOMAIN d \cup {key} |-> IF w = key THEN value ELSE d[w]]

\* d.get(key, default)
Get(d, key, default) == IF key \in DOMAIN d THEN d[key] ELSE default

HH == <<"H","H">>

AH0 == <<"A","H","0">>

\* The two counts of _score_variant in the other order.
ScoreAh0First(arpabet) ==
    LET tokens == split(upper(arpabet))
    IN  <<count(tokens, AH0), count(tokens, HH)>>

\* CMUDictionary._score_variant
_score_variant(arpabet) ==
    LET tokens    == split(upper(arpabet))
        hh_count  == count(tokens, HH)
        ah0_count == count(tokens, AH0)
    IN  <<hh_count, ah0_count>>

\* Python's a < b on tuples of integers.
RECURSIVE tuple_lt(_, _)
tuple_lt(a, b) ==
    IF b = <<>> THEN FALSE
    ELSE IF a = <<>> THEN TRUE
    ELSE IF Head(a) # Head(b) THEN Head(a) < Head(b)
    ELSE tuple_lt(Tail(a), Tail(b))

\* A comparison that also accepts an equal score.
NotWorse(new, current) == ~tuple_lt(current, new)

\* The test that lets a numbered alternate replace the stored variant.
Better(new, current) == tuple_lt(new, current)

\* A baseline branch that records the raw variant only for a new word.
StoreBaselineOnce(d, cache, word, arpabet) ==
    [dict  |-> Put(d, word, arpabet_to_ipa(arpabet)),
     cache |-> IF word \in DOMAIN d THEN cache ELSE Put(cache, word, arpabet)]

\* The baseline branch: the untagged line is always stored.
StoreBaseline(d, cache, word, arpabet) ==
    [dict  |-> Put(d, word, arpabet_to_ipa(arpabet)),
     cache |-> Put(cache, word, arpabet)]

\* The line as the loop sees it, and its parts.
Stripped(line) == strip(line)

Parts(line) == split_maxsplit_1(Stripped(line))

\* A test for skipped lines that lets comment lines through.
SkippedButComments(line) ==
    \/ Stripped(line) = <<>>
    \/ Len(Parts(line)) < 2

\* Lines the loop skips: empty, comment, or without a pronunciation.
Skipped(line) ==
    \/ Stripped(line) = <<>>
    \/ startswith(Stripped(line), <<";",";",";">>)
    \/ Len(Parts(line)) < 2

WordRaw(line) == Parts(line)[1]

Arpabet(line) == Parts(line)[2]

Word(line) == lower(split_first(WordRaw(line), <<"(">>))

IsVariant(line) == contains(WordRaw(line), <<"(">>)

\* with open(filepath) ...: _load_from_file starts with an empty cache.
OpenFile ==
    /\ lpc = "idle"
    /\ pc = "idle"
    /\ runs < MaxRuns
    /\ lpc' = "reading"
    /\ line_no' = 1
    /\ _arpabet_cache' = EmptyDict
    /\ current_score' = <<>>
    /\ new_score' = <<>>
    /\ UNCHANGED <<corpus, _dict, runs, first_dict>>
    /\ UNCHANGED pipe_vars
    /\ UNCHANGED call_vars

\* One iteration of "for line in f".
LoadLine ==
    /\ lpc = "reading"
    /\ line_no <= Len(corpus)
    /\ LET line == corpus[line_no]
       IN  IF Skipped(line)
           THEN UNCHANGED <<_dict, _arpabet_cache, current_score, new_score>>
           ELSE IF ~IsVariant(line)
           THEN LET st == StoreBaseline(_dict, _arpabet_cache, Word(line), Arpabet(line))
                IN  /\ _dict' = st.dict
                    /\ _arpabet_cache' = st.cache
                    /\ UNCHANGED <<current_score, new_score>>
           ELSE LET current_arpabet == Get(_arpabet_cache, Word(line), <<>>)
                IN  /\ current_score' = _score_variant(current_arpabet)
                    /\ new_score' = _score_variant(Arpabet(line))
                    /\ IF Better(_score_variant(Arpabet(line)),
                                 _score_variant(current_arpabet))
                       THEN /\ _dict' = Put(_dict, Word(line), arpabet_to_ipa(Arpabet(line)))
                            /\ _arpabet_cache' = Put(_arpabet_cache, Word(line), Arpabet(line))
                       ELSE UNCHANGED <<_dict, _arpabet_cache>>
    /\ line_no' = line_no + 1
    /\ UNCHANGED <<corpus, lpc, runs, first_dict>>
    /\ UNCHANGED pipe_vars
    /\ UNCHANGED call_vars

\* The file is exhausted: _load_from_file returns.
CloseFile ==
    /\ lpc = "reading"
    /\ line_no > Len(corpus)
    /\ lpc' = "idle"
    /\ runs' = runs + 1
    /\ first_dict' = IF runs = 0 THEN _dict ELSE first_dict
    /\ UNCHANGED <<corpus, line_no, _dict, _arpabet_cache, current_score, new_score>>
    /\ UNCHANGED pipe_vars
    /\ UNCHANGED call_vars

\* CMUDictionary.lookup_with_stress on a loaded store
lookup_with_stress(d, word) ==
    IF lower(word) \in DOMAIN d THEN Some(d[lower(word)]) ELSE None

\* A lookup that finds nothing.
LookupNever(d, word) == None

\* CMUDictionary.lookup on a loaded store
lookup(d, word) ==
    LET found == Get(d, lower(word), <<>>)
    IN  IF found # <<>> THEN Some(replace(found, STRESS, <<>>)) ELSE None

-----------------------------------------------------------------------------
(* jelou_api.py                                                            *)

translate_word(d, word) ==
    LET ipa_display == lookup(d, word)
        ipa_stress  == lookup_with_stress(d, word)
    IN  IF ipa_stress # None /\ ipa_stress[1] # <<>>
        THEN [word |-> word, ipa |-> ipa_display,
              spanish |-> Some(ipa_to_spanish(ipa_stress[1])), found |-> TRUE]
        ELSE [word |-> word, ipa |-> None, spanish |-> None, found |-> FALSE]

\* The callers of the shared store.
Threads == {"t1", "t2"}

\* No caller has called anything.
CallersIdle ==
    /\ _loaded = FALSE
    /\ cache_file = None
    /\ net_ok = FALSE
    /\ tpc = [t \in Threads |-> "idle"]
    /\ todo = [t \in Threads |-> <<>>]
    /\ calls = [t \in Threads |-> 0]
    /\ began_loaded = [t \in Threads |-> FALSE]
    /\ attempts = [t \in Threads |-> 0]
    /\ outcome = [t \in Threads |-> "none"]
    /\ file_reads = 0
    /\ fetches = 0
    /\ read_line = [t \in Threads |-> 1]
    /\ read_cache = [t \in Threads |-> EmptyDict]

\* The store while nothing is loaded.
StoreIdle ==
    /\ corpus = <<>>
    /\ lpc = "idle"
    /\ line_no = 1
    /\ _dict = EmptyDict
    /\ _arpabet_cache = EmptyDict
    /\ current_score = <<>>
    /\ new_score = <<>>
    /\ runs = 0
    /\ first_dict = EmptyDict

-----------------------------------------------------------------------------
(* The pipeline as its callers run it: a token sequence is mapped and the  *)
(* intermediate string rewritten (jelou_api.py, lines 110-116).            *)

MaxTokens == 3

\* Tokens the inputs are drawn from.
PipeTokens == {
    <<"E","H","1">>, <<"I","Y","1">>, <<"A","H","2">>, <<"U","W","0">>,
    <<"H","H">>, <<"K","1">> }

\* The token sequences of the documented scenarios.
Scenarios == {
    << <<"H","H">>, <<"E","H","1">>, <<"L">>, <<"O","W","0">> >>,
    << <<"T","H">>, <<"I","H","1">>, <<"N","G">>, <<"K">> >> }

TokenSeqs == UNION {[1..n -> PipeTokens] : n \in 0..MaxTokens} \cup Scenarios

\* Inputs as a caller may write them: blank, in lower case, with tokens the
\* table does not have, with runs of whitespace.
RawInputs == {
    <<" ", " ">>,
    <<" ", "\t", "\n">>,
    <<"z","z">>,
    <<"z","z","1"," ","e","h","1">>,
    <<"1","2">>,
    <<" ","h","h"," "," ","E","H","1","\t","q","q","2"," ","K","3"," ">> }

InitPipe ==
    /\ pc = "start"
    /\ arpabet_sequence \in {JoinSpace(ts) : ts \in TokenSeqs} \cup RawInputs
    /\ ipa = <<>>
    /\ result = <<>>
    /\ result2 = <<>>
    /\ StoreIdle
    /\ CallersIdle

Map ==
    /\ pc = "start"
    /\ ipa' = arpabet_to_ipa(arpabet_sequence)
    /\ pc' = "mapped"
    /\ UNCHANGED <<arpabet_sequence, result, result2>>
    /\ UNCHANGED store_vars
    /\ UNCHANGED call_vars

Rewrite ==
    /\ pc = "mapped"
    /\ result' = ipa_to_spanish(ipa)
    /\ pc' = "rewritten"
    /\ UNCHANGED <<arpabet_sequence, ipa, result2>>
    /\ UNCHANGED store_vars
    /\ UNCHANGED call_vars

RewriteAgain ==
    /\ pc = "rewritten"
    /\ result2' = ipa_to_spanish(result)
    /\ pc' = "rewritten_twice"
    /\ UNCHANGED <<arpabet_sequence, ipa, result>>
    /\ UNCHANGED store_vars
    /\ UNCHANGED call_vars

NextPipe == Map \/ Rewrite \/ RewriteAgain

SpecPipe == InitPipe /\ [][NextPipe]_vars

-----------------------------------------------------------------------------
(* The engine on intermediate strings: concatenated symbols of the Phoneme *)
(* Table with the sentinel in front of at most one of them.                *)

MaxSymbols == 3

\* Table symbols the intermediate strings are built from.
EngineSymbols == {
    <<"h">>, <<"p">>, <<"d","<ezh>">>, <<"<eng>">>, <<"g">>, <<"<small-cap-i>">> }

SymbolSeqs == UNION {[1..n -> EngineSymbols] : n \in 0..MaxSymbols}

\* The string of a symbol sequence with the sentinel before symbol r (0: none).
Intermediate(ss, r) ==
    join([i \in 1..Len(ss) |-> IF i = r THEN STRESS \o ss[i] ELSE ss[i]])

InitEngine ==
    /\ pc = "mapped"
    /\ arpabet_sequence = <<>>
    /\ ipa \in {Intermediate(ss, r) : ss \in SymbolSeqs, r \in 0..MaxSymbols}
    /\ result = <<>>
    /\ result2 = <<>>
    /\ StoreIdle
    /\ CallersIdle

NextEngine == Rewrite \/ RewriteAgain

SpecEngine == InitEngine /\ [][NextEngine]_vars

-----------------------------------------------------------------------------
(* Loading a corpus file into the store, twice, and then a query           *)
(* (cmu_dictionary.py, lines 209-242; jelou_api.py, lines 106-119).        *)

MaxLines == 3

\* Corpus lines: a baseline with one HH and one AH0, and alternates whose
\* score ties with it, is higher on HH, or is lower on AH0 only; two
\* calendar day names, one with an alternate of equal score.
BaseA == <<"a"," ","H","H"," ","A","H","0"," ","T","\n">>

AltTie == <<"a","(","2",")"," ","H","H"," ","A","H","0"," ","D","\n">>

AltHigherFirst == <<"a","(","3",")"," ","H","H"," ","H","H"," ","T","\n">>

AltLowerSecond == <<"a","(","4",")"," ","H","H"," ","T","\n">>

BaseSaturday ==
    <<"s","a","t","u","r","d","a","y"," ","S"," ","A","E","1"," ","T"," ",
      "E","R","0"," ","D"," ","I","Y","0","\n">>

BaseMonday ==
    <<"m","o","n","d","a","y"," ","M"," ","A","H","1"," ","N"," ","D"," ",
      "I","Y","0","\n">>

AltMonday ==
    <<"m","o","n","d","a","y","(","2",")"," ","M"," ","A","H","1"," ","N"," ",
      "D"," ","E","Y","2","\n">>

CommentLine == <<";",";",";"," ","x","\n">>

LineCatalog == {BaseA, AltTie, AltHigherFirst, AltLowerSecond, BaseSaturday,
                BaseMonday, AltMonday, CommentLine}

Corpora == UNION {[1..n -> LineCatalog] : n \in 0..MaxLines}

\* Words the caller asks for.
QueryWords == {<<"s","a","t","u","r","d","a","y">>, <<"m","o","n","d","a","y">>,
               <<"A">>}

InitLoad ==
    /\ pc = "idle"
    /\ arpabet_sequence = <<>>
    /\ ipa = <<>>
    /\ result = <<>>
    /\ result2 = <<>>
    /\ corpus \in Corpora
    /\ lpc = "idle"
    /\ line_no = 1
    /\ _dict = EmptyDict
    /\ _arpabet_cache = EmptyDict
    /\ current_score = <<>>
    /\ new_score = <<>>
    /\ runs = 0
    /\ first_dict = EmptyDict
    /\ CallersIdle

\* translate_word(word) once the store is loaded.
Translate ==
    /\ pc = "idle"
    /\ lpc = "idle"
    /\ runs >= 1
    /\ \E word \in QueryWords :
          /\ ipa' = lookup_with_stress(_dict, word)
          /\ result' = translate_word(_dict, word)
    /\ pc' = "translated"
    /\ UNCHANGED <<arpabet_sequence, result2>>
    /\ UNCHANGED store_vars
    /\ UNCHANGED call_vars

NextLoad == OpenFile \/ LoadLine \/ CloseFile \/ Translate

SpecLoad == InitLoad /\ [][NextLoad]_vars

-----------------------------------------------------------------------------
(* Callers of the shared store: lookup, lookup_with_stress, load,          *)
(* translate_word and batch_translate, each running to completion while    *)
(* the others may run in between (cmu_dictionary.py, lines 82-148 and      *)
(* 246-290; jelou_api.py, lines 110-111 and 217).  _load_from_file runs    *)
(* line by line, so that a caller sees what another has stored so far.     *)

MaxCalls == 1

\* The loop body of _load_from_file on one line: the store and the cache after it.
LoopBody(st, line) ==
    IF Skipped(line) THEN st
    ELSE IF ~IsVariant(line)
    THEN StoreBaseline(st.dict, st.cache, Word(line), Arpabet(line))
    ELSE IF Better(_score_variant(Arpabet(line)),
                   _score_variant(Get(st.cache, Word(line), <<>>)))
    THEN [dict  |-> Put(st.dict, Word(line), arpabet_to_ipa(Arpabet(line))),
          cache |-> Put(st.cache, Word(line), Arpabet(line))]
    ELSE st

RECURSIVE RunLoop(_, _, _)
RunLoop(st, lines, i) ==
    IF i > Len(lines) THEN st ELSE RunLoop(LoopBody(st, lines[i]), lines, i + 1)

\* _load_from_file as one call: the store after the whole file.
load_from_file(d, lines) == RunLoop([dict |-> d, cache |-> EmptyDict], lines, 1).dict

\* A load() test that never finds the store loaded.
NeverLoaded(loaded, force_download) == FALSE

\* load(): "if self._loaded and not force_download: return"
AlreadyLoaded(loaded, force_download) == loaded /\ ~force_download

\* A download whose failure is swallowed.
AfterFetchSwallowed(ok) == "read"

\* _download_and_cache: where load() continues after the fetch.
AfterFetch(ok) == IF ok THEN "read" ELSE "raise"

\* The store calls an API call makes, in order.
Plan(api) ==
    CASE api = "lookup"             -> <<"lookup">>
      [] api = "lookup_with_stress" -> <<"lookup_with_stress">>
      [] api = "load"               -> <<"load">>
      [] api = "load_force"         -> <<"load_force">>
      [] api = "translate_word"     -> <<"lookup", "lookup_with_stress">>
      [] api = "batch_translate"    -> <<"lookup", "lookup_with_stress",
                                         "lookup", "lookup_with_stress">>

ApiCalls == {"lookup", "lookup_with_stress", "load", "translate_word",
             "batch_translate"}

\* The force_download argument of the load() a store call makes.
force_download(call) == call = "load_force"

\* Files the URL serves and the cache may hold.
StoreCorpora == {<<BaseA, AltLowerSecond>>, <<BaseMonday, CommentLine>>}

\* The locals of the single run of SpecLoad, and those of every caller.
single_loader == <<lpc, line_no, _arpabet_cache, current_score, new_score,
                   runs, first_dict>>

loader_locals == <<single_loader, read_line, read_cache>>

InitStore ==
    /\ pc = "idle"
    /\ arpabet_sequence = <<>>
    /\ ipa = <<>>
    /\ result = <<>>
    /\ result2 = <<>>
    /\ corpus \in StoreCorpora
    /\ lpc = "idle"
    /\ line_no = 1
    /\ _dict = EmptyDict
    /\ _arpabet_cache = EmptyDict
    /\ current_score = <<>>
    /\ new_score = <<>>
    /\ runs = 0
    /\ first_dict = EmptyDict
    /\ _loaded = FALSE
    /\ cache_file \in {None, Some(corpus)}
    /\ net_ok \in BOOLEAN
    /\ tpc = [t \in Threads |-> "idle"]
    /\ todo = [t \in Threads |-> <<>>]
    /\ calls = [t \in Threads |-> 0]
    /\ began_loaded = [t \in Threads |-> FALSE]
    /\ attempts = [t \in Threads |-> 0]
    /\ outcome = [t \in Threads |-> "none"]
    /\ file_reads = 0
    /\ fetches = 0
    /\ read_line = [t \in Threads |-> 1]
    /\ read_cache = [t \in Threads |-> EmptyDict]

\* A caller makes an API call.
Call(t) ==
    /\ tpc[t] = "idle"
    /\ calls[t] < MaxCalls
    /\ \E api \in ApiCalls : todo' = [todo EXCEPT ![t] = Plan(api)]
    /\ calls' = [calls EXCEPT ![t] = @ + 1]
    /\ began_loaded' = [began_loaded EXCEPT ![t] = _loaded]
    /\ outcome' = [outcome EXCEPT ![t] = "none"]
    /\ tpc' = [tpc EXCEPT ![t] = "enter"]
    /\ UNCHANGED <<_loaded, cache_file, net_ok, attempts, file_reads, fetches>>
    /\ UNCHANGED <<corpus, _dict, loader_locals, pipe_vars>>

\* A caller makes an API call, load(force_download=True) included.
CallOrForce(t) ==
    /\ tpc[t] = "idle"
    /\ calls[t] < MaxCalls
    /\ \E api \in ApiCalls \cup {"load_force"} :
          todo' = [todo EXCEPT ![t] = Plan(api)]
    /\ calls' = [calls EXCEPT ![t] = @ + 1]
    /\ began_loaded' = [began_loaded EXCEPT ![t] = _loaded]
    /\ outcome' = [outcome EXCEPT ![t] = "none"]
    /\ tpc' = [tpc EXCEPT ![t] = "enter"]
    /\ UNCHANGED <<_loaded, cache_file, net_ok, attempts, file_reads, fetches>>
    /\ UNCHANGED <<corpus, _dict, loader_locals, pipe_vars>>

\* The next store call begins: lookup tests _loaded itself (line 284),
\* lookup_with_stress calls load() at once (line 248).
Enter(t) ==
    /\ tpc[t] = "enter"
    /\ tpc' = [tpc EXCEPT ![t] =
                  IF Head(todo[t]) = "lookup" /\ _loaded THEN "get" ELSE "load"]
    /\ attempts' = [attempts EXCEPT ![t] = 0]
    /\ UNCHANGED <<_loaded, cache_file, net_ok, todo, calls, began_loaded,
                   outcome, file_reads, fetches>>
    /\ UNCHANGED <<corpus, _dict, loader_locals, pipe_vars>>

\* load(), lines 105-106
LoadCheck(t) ==
    /\ tpc[t] = "load"
    /\ tpc' = [tpc EXCEPT ![t] =
                  IF AlreadyLoaded(_loaded, force_download(Head(todo[t])))
                  THEN "get" ELSE "exists"]
    /\ UNCHANGED <<_loaded, cache_file, net_ok, todo, calls, began_loaded,
                   attempts, outcome, file_reads, fetches>>
    /\ UNCHANGED <<corpus, _dict, loader_locals, pipe_vars>>

\* load(), line 108
ExistsCheck(t) ==
    /\ tpc[t] = "exists"
    /\ tpc' = [tpc EXCEPT ![t] =
                  IF cache_file # None /\ ~force_download(Head(todo[t]))
                  THEN "read" ELSE "download"]
    /\ UNCHANGED <<_loaded, cache_file, net_ok, todo, calls, began_loaded,
                   attempts, outcome, file_reads, fetches>>
    /\ UNCHANGED <<corpus, _dict, loader_locals, pipe_vars>>

\* _download_and_cache: one urlopen; the cache file is written when it succeeds.
Download(t) ==
    /\ tpc[t] = "download"
    /\ fetches' = fetches + 1
    /\ attempts' = [attempts EXCEPT ![t] = @ + 1]
    /\ cache_file' = IF net_ok THEN Some(corpus) ELSE cache_file
    /\ tpc' = [tpc EXCEPT ![t] = AfterFetch(net_ok)]
    /\ UNCHANGED <<_loaded, net_ok, todo, calls, began_loaded, outcome, file_reads>>
    /\ UNCHANGED <<corpus, _dict, loader_locals, pipe_vars>>

\* _load_from_file starts: its local cache is empty and the file is opened;
\* open() of a file that does not exist raises out of the API call.
StartRead(t) ==
    /\ tpc[t] = "read"
    /\ file_reads' = file_reads + 1
    /\ read_line' = [read_line EXCEPT ![t] = 1]
    /\ read_cache' = [read_cache EXCEPT ![t] = EmptyDict]
    /\ IF cache_file # None
       THEN /\ tpc' = [tpc EXCEPT ![t] = "reading"]
            /\ UNCHANGED <<todo, outcome>>
       ELSE /\ tpc' = [tpc EXCEPT ![t] = "idle"]
            /\ todo' = [todo EXCEPT ![t] = <<>>]
            /\ outcome' = [outcome EXCEPT ![t] = "FileNotFoundError"]
    /\ UNCHANGED <<_loaded, cache_file, net_ok, calls, began_loaded,
                   attempts, fetches>>
    /\ UNCHANGED <<corpus, _dict, single_loader, pipe_vars>>

\* One pass of the loop of _load_from_file in caller t.
ReadLine(t) ==
    /\ tpc[t] = "reading"
    /\ read_line[t] <= Len(cache_file[1])
    /\ LET after == LoopBody([dict |-> _dict, cache |-> read_cache[t]],
                             cache_file[1][read_line[t]])
       IN /\ _dict' = after.dict
          /\ read_cache' = [read_cache EXCEPT ![t] = after.cache]
    /\ read_line' = [read_line EXCEPT ![t] = @ + 1]
    /\ UNCHANGED <<_loaded, cache_file, net_ok, tpc, todo, calls, began_loaded,
                   attempts, outcome, file_reads, fetches>>
    /\ UNCHANGED <<corpus, single_loader, pipe_vars>>

\* _load_from_file ends: every line of the file has been read.
FinishRead(t) ==
    /\ tpc[t] = "reading"
    /\ read_line[t] > Len(cache_file[1])
    /\ tpc' = [tpc EXCEPT ![t] = "flag"]
    /\ UNCHANGED <<_loaded, cache_file, net_ok, todo, calls, began_loaded,
                   attempts, outcome, file_reads, fetches>>
    /\ UNCHANGED <<corpus, _dict, loader_locals, pipe_vars>>

\* load(), line 114
SetLoaded(t) ==
    /\ tpc[t] = "flag"
    /\ _loaded' = TRUE
    /\ tpc' = [tpc EXCEPT ![t] = "get"]
    /\ UNCHANGED <<cache_file, net_ok, todo, calls, began_loaded, attempts,
                   outcome, file_reads, fetches>>
    /\ UNCHANGED <<corpus, _dict, loader_locals, pipe_vars>>

\* The store call reads the mapping and returns; the API call goes on.
Return(t) ==
    /\ tpc[t] = "get"
    /\ todo' = [todo EXCEPT ![t] = Tail(@)]
    /\ tpc' = [tpc EXCEPT ![t] = IF Len(todo[t]) = 1 THEN "idle" ELSE "enter"]
    /\ outcome' = [outcome EXCEPT ![t] = IF Len(todo[t]) = 1 THEN "returned" ELSE @]
    /\ UNCHANGED <<_loaded, cache_file, net_ok, calls, began_loaded, attempts,
                   file_reads, fetches>>
    /\ UNCHANGED <<corpus, _dict, loader_locals, pipe_vars>>

\* RuntimeError (line 148) leaves load(), the store call and the API call.
Raise(t) ==
    /\ tpc[t] = "raise"
    /\ todo' = [todo EXCEPT ![t] = <<>>]
    /\ tpc' = [tpc EXCEPT ![t] = "idle"]
    /\ outcome' = [outcome EXCEPT ![t] = "RuntimeError"]
    /\ UNCHANGED <<_loaded, cache_file, net_ok, calls, began_loaded, attempts,
                   file_reads, fetches>>
    /\ UNCHANGED <<corpus, _dict, loader_locals, pipe_vars>>

NextStore ==
    \E t \in Threads :
        \/ Call(t)
        \/ Enter(t)
        \/ LoadCheck(t)
        \/ ExistsCheck(t)
        \/ Download(t)
        \/ StartRead(t)
        \/ ReadLine(t)
        \/ FinishRead(t)
        \/ SetLoaded(t)
        \/ Return(t)
        \/ Raise(t)

SpecStore == InitStore /\ [][NextStore]_vars

NextForce ==
    \E t \in Threads :
        \/ CallOrForce(t)
        \/ Enter(t)
        \/ LoadCheck(t)
        \/ ExistsCheck(t)
        \/ Download(t)
        \/ StartRead(t)
        \/ ReadLine(t)
        \/ FinishRead(t)
        \/ SetLoaded(t)
        \/ Return(t)
        \/ Raise(t)

SpecForce == InitStore /\ [][NextForce]_vars


-----------------------------------------------------------------------------
(* Ingestion of a file that has empty, comment and word-only lines among   *)
(* its entries (cmu_dictionary.py, lines 211-222), and parse_cmu_line on   *)
(* the same lines (arpabet_to_ipa.py, lines 191-259).                      *)

\* parse_cmu_line: None, or the pair (word, ipa without the sentinel).
parse_cmu_line(line) ==
    LET stripped == strip(line)
        parts    == split_maxsplit_1(stripped)
    IN  IF stripped = <<>> \/ startswith(stripped, <<";",";",";">>) THEN None
        ELSE IF Len(parts) < 2 THEN None
        ELSE Some(<<lower(split_first(parts[1], <<"(">>)),
                    arpabet_to_ipa_clean(parts[2])>>)

EmptyLine == <<"\n">>

BlankLine == <<" ", "\t", "\n">>

WordOnlyLine == <<"m","o","n","d","a","y"," ","\n">>

IngestCatalog == {EmptyLine, BlankLine, CommentLine, WordOnlyLine, BaseA,
                  AltLowerSecond, BaseMonday}

IngestCorpora == UNION {[1..n -> IngestCatalog] : n \in 0..MaxLines}

InitIngest ==
    /\ pc = "idle"
    /\ arpabet_sequence = <<>>
    /\ ipa = <<>>
    /\ result = <<>>
    /\ result2 = <<>>
    /\ corpus \in IngestCorpora
    /\ lpc = "idle"
    /\ line_no = 1
    /\ _dict = EmptyDict
    /\ _arpabet_cache = EmptyDict
    /\ current_score = <<>>
    /\ new_score = <<>>
    /\ runs = 0
    /\ first_dict = EmptyDict
    /\ CallersIdle

\* A caller parses every line of the file with parse_cmu_line.
ParseLines ==
    /\ pc = "idle"
    /\ lpc = "idle"
    /\ result' = [k \in 1..Len(corpus) |-> parse_cmu_line(corpus[k])]
    /\ pc' = "parsed"
    /\ UNCHANGED <<arpabet_sequence, ipa, result2>>
    /\ UNCHANGED store_vars
    /\ UNCHANGED call_vars

NextIngest == OpenFile \/ LoadLine \/ CloseFile \/ ParseLines

SpecIngest == InitIngest /\ [][NextIngest]_vars

-----------------------------------------------------------------------------
(* translate_ipa (jelou_api.py, lines 122-174)                             *)

PRIMARY_MARK == <<"<primary-mark>">>

\* _LONG_VOWELS, in the order the loop tries them
LONG_VOWELS == << <<"i","<length>">>, <<"u","<length>">> >>

\* str.replace(pat, rep, 1): the leftmost match only.
replace_first(s, pat, rep) ==
    LET i == find(s, pat)
    IN  IF i = 0 THEN s
        ELSE SubSeq(s, 1, i - 1) \o rep \o SubSeq(s, i + Len(pat), Len(s))

\* "stressed = ipa.replace(lv, '~~STRESS~~' + lv, 1)" for the k-th long vowel
MarkLongVowel(ipa_in, k) ==
    replace_first(ipa_in, LONG_VOWELS[k], STRESS \o LONG_VOWELS[k])

\* "processed = ipa.replace(mark, '~~STRESS~~')"
MarkToSentinel(ipa_in) == replace(ipa_in, PRIMARY_MARK, STRESS)

\* The string translate_ipa hands to ipa_to_spanish.
engine_input(ipa_in) ==
    IF contains(ipa_in, PRIMARY_MARK) THEN MarkToSentinel(ipa_in)
    ELSE IF contains(ipa_in, LONG_VOWELS[1]) THEN MarkLongVowel(ipa_in, 1)
    ELSE IF contains(ipa_in, LONG_VOWELS[2]) THEN MarkLongVowel(ipa_in, 2)
    ELSE ipa_in

translate_ipa(ipa_in) == ipa_to_spanish(engine_input(ipa_in))

\* Symbols the direct-notation inputs are built from.
IpaSymbols == {
    <<"<esh>">>, <<"i","<length>">>, <<"u","<length>">>, <<"<small-cap-i>">>,
    <<"l">>, <<"o","<upsilon>">>, PRIMARY_MARK }

\* The documented inputs.
IpaScenarios == {
    <<"<esh>","i","<length>">>,
    <<"<theta>","<small-cap-i>","<eng>","k">>,
    <<"h","<epsilon>","<primary-mark>","l","o","<upsilon>">> }

IpaInputs ==
    {join(ss) : ss \in UNION {[1..n -> IpaSymbols] : n \in 0..MaxSymbols}}
        \cup IpaScenarios

InitIpa ==
    /\ pc = "start"
    /\ arpabet_sequence = <<>>
    /\ ipa \in IpaInputs
    /\ result = <<>>
    /\ result2 = <<>>
    /\ StoreIdle
    /\ CallersIdle

\* translate_ipa(ipa)
TranslateIpa ==
    /\ pc = "start"
    /\ result' = translate_ipa(ipa)
    /\ pc' = "done"
    /\ UNCHANGED <<arpabet_sequence, ipa, result2>>
    /\ UNCHANGED store_vars
    /\ UNCHANGED call_vars

NextIpa == TranslateIpa

SpecIpa == InitIpa /\ [][NextIpa]_vars

-----------------------------------------------------------------------------
(* ipa_to_spanish on texts of fricatives, affricates and h                 *)
(* (phonetic_engine.py, lines 34-44 and 94-201).                           *)

\* Symbols the texts are built from: the dental fricative, the postalveolar
\* fricatives, the stops that open the affricates, h, s, two vowels and the
\* primary-stress mark.
SoundSymbols == {
    "<eth>", "<esh>", "<ezh>", "t", "d", "h", "s", "<small-cap-i>", "<ash>",
    "<primary-mark>" }

SoundInputs == UNION {[1..n -> SoundSymbols] : n \in 0..MaxSymbols}

InitSounds ==
    /\ pc = "mapped"
    /\ arpabet_sequence = <<>>
    /\ ipa \in SoundInputs
    /\ result = <<>>
    /\ result2 = <<>>
    /\ StoreIdle
    /\ CallersIdle

NextSounds == Rewrite

SpecSounds == InitSounds /\ [][NextSounds]_vars

-----------------------------------------------------------------------------
(* ipa_to_spanish on intermediate strings around the voiced affricate      *)
(* (phonetic_engine.py, lines 34-44, 157-163 and 183-188).                 *)

\* Table symbols: the voiced affricate, the glide, three vowels (one of
\* them r-coloured, one a diphthong) and a stop.
AffricateSymbols == {
    <<"d","<ezh>">>, <<"j">>, <<"<small-cap-i>">>, <<"<rhotic-epsilon>">>,
    <<"e","<small-cap-i>">>, <<"t">> }

AffricateVowels == {
    <<"<small-cap-i>">>, <<"<rhotic-epsilon>">>, <<"e","<small-cap-i>">> }

\* arpabet_to_ipa('V EH1 JH T AH0 B AH0 L')
Vegetable ==
    <<"v">> \o STRESS \o <<"<epsilon>", "d", "<ezh>", "t", "<turned-v>", "b",
                           "<turned-v>", "l">>

\* arpabet_to_ipa('EH2 JH Y UW0 K EY1 SH AH0 N')
Education ==
    <<"<epsilon>", "d", "<ezh>", "j", "u", "<length>", "k">> \o STRESS
        \o <<"e", "<small-cap-i>", "<esh>", "<turned-v>", "n">>

\* Intermediate strings: the sentinel, if any, stands before a vowel symbol.
AffricateInputs ==
    LET seqs == UNION {[1..n -> AffricateSymbols] : n \in 0..MaxSymbols}
    IN  {Intermediate(ss, r) : ss \in seqs, r \in 0..0}
        \cup UNION {{Intermediate(ss, r) :
                        r \in {k \in 1..Len(ss) : ss[k] \in AffricateVowels}}
                            : ss \in seqs}
        \cup {Vegetable, Education}

InitAffricate ==
    /\ pc = "mapped"
    /\ arpabet_sequence = <<>>
    /\ ipa \in AffricateInputs
    /\ result = <<>>
    /\ result2 = <<>>
    /\ StoreIdle
    /\ CallersIdle

NextAffricate == Rewrite

SpecAffricate == InitAffricate /\ [][NextAffricate]_vars

-----------------------------------------------------------------------------
(* ipa_to_spanish on intermediate strings that bring every placeholder     *)
(* into play (phonetic_engine.py, lines 141-201).                          *)

\* The glide (placeholder for j), the fricative and the affricate whose
\* digraphs are protected, a vowel the sentinel accents, the table symbol
\* for IY, which no rule matches, and the lowercased text of a token the
\* table does not have (arpabet_to_ipa.py, lines 177-178).
MarkerSymbols == {
    <<"j">>, <<"<esh>">>, <<"t","<esh>">>, <<"<small-cap-i>">>, <<"i">>, <<"q">> }

\* The string of a symbol sequence with the sentinel after symbol r - 1
\* (0: no sentinel; Len + 1: at the end).
SentinelAnywhere(ss, r) ==
    IF r = Len(ss) + 1 THEN join(ss) \o STRESS ELSE Intermediate(ss, r)

MarkerInputs ==
    UNION {{SentinelAnywhere(ss, r) : r \in 0..(Len(ss) + 1)}
              : ss \in UNION {[1..n -> MarkerSymbols] : n \in 0..MaxSymbols}}

InitMarkers ==
    /\ pc = "mapped"
    /\ arpabet_sequence = <<>>
    /\ ipa \in MarkerInputs
    /\ result = <<>>
    /\ result2 = <<>>
    /\ StoreIdle
    /\ CallersIdle

NextMarkers == Rewrite

SpecMarkers == InitMarkers /\ [][NextMarkers]_vars

-----------------------------------------------------------------------------
(* The whole pipeline on token sequences with HH and its neighbours        *)
(* (jelou_api.py, lines 110-116; phonetic_engine.py, lines 68-70,          *)
(* 165-168 and 178-188).                                                   *)

AspirateTokens == {
    <<"H","H">>, <<"S">>, <<"P">>, <<"A","H","0">>, <<"I","Y","1">> }

InitAspirate ==
    /\ pc = "start"
    /\ arpabet_sequence \in
          {JoinSpace(ts) : ts \in UNION {[1..n -> AspirateTokens] : n \in 0..MaxTokens}}
    /\ ipa = <<>>
    /\ result = <<>>
    /\ result2 = <<>>
    /\ StoreIdle
    /\ CallersIdle

NextAspirate == Map \/ Rewrite

SpecAspirate == InitAspirate /\ [][NextAspirate]_vars

-----------------------------------------------------------------------------
(* Claims about the stress resolver and the mapper (SpecPipe)              *)

\* The tokens of the input as the claims read them.
Tokens == split(upper(arpabet_sequence))

\* A vowel token tagged primary: a vowel of the table, then stress digits, the
\* last of them 1.
TaggedPrimary(tok) ==
    /\ Len(tok) >= 3
    /\ SubSeq(tok, 1, 2) \in STRESSED_VOWELS
    /\ \A k \in 3..Len(tok) : tok[k] \in StressDigits
    /\ tok[Len(tok)] = "1"

PrimaryPositions == {i \in 1..Len(Tokens) : TaggedPrimary(Tokens[i])}

\* The mapped symbol(s) of a token: its table entry once the trailing digits
\* are dropped, or its lowercased text.
Symbols(tok) ==
    LET n    == CHOOSE n \in 0..Len(tok) :
                    /\ \A k \in (n + 1)..Len(tok) : tok[k] \in StressDigits
                    /\ (n = 0 \/ tok[n] \notin StressDigits)
        bare == SubSeq(tok, 1, n)
    IN  IF HasKey(ARPABET_TO_IPA, bare) THEN Lookup(ARPABET_TO_IPA, bare) ELSE lower(bare)

\* The output with the sentinel in front of token r only (r = 0: nowhere).
WithSentinelAt(r) ==
    join([i \in 1..Len(Tokens) |->
            IF i = r THEN STRESS \o Symbols(Tokens[i]) ELSE Symbols(Tokens[i])])

Occurrences(s, pat) == Cardinality({i \in 1..Len(s) : MatchAt(s, i, pat)})

C2_AtMostOneSentinel ==
    pc # "start" =>
        /\ Occurrences(ipa, STRESS) <= 1
        /\ (PrimaryPositions = {} => ~contains(ipa, STRESS))
        /\ \E r \in PrimaryPositions \cup {0} : ipa = WithSentinelAt(r)

\* C2 witness: an input with a vowel tagged 2 and a consonant tagged 1 and no
\* vowel tagged primary has been mapped without a sentinel.
C2_Witness ==
    /\ pc = "mapped"
    /\ PrimaryPositions = {}
    /\ \E i \in 1..Len(Tokens) : Tokens[i] = <<"A","H","2">>
    /\ \E i \in 1..Len(Tokens) : Tokens[i] = <<"K","1">>
    /\ ~contains(ipa, STRESS)

Accents == {"<a-acute>", "<e-acute>", "<i-acute>", "<o-acute>", "<u-acute>"}

AccentCount(s) == Cardinality({i \in 1..Len(s) : s[i] \in Accents})

\* C3: exactly one vowel tagged primary gives exactly one accented letter in
\* the final output, and no vowel tagged primary gives none.
C3_OneAccentPerPrimary ==
    pc = "rewritten" =>
        /\ (Cardinality(PrimaryPositions) = 1 => AccentCount(result) = 1)
        /\ (PrimaryPositions = {} => AccentCount(result) = 0)

\* C5: the tokens HH EH1 L OW0 give "jelou" and TH IH1 NG K give "zink".
C5_Scenarios ==
    pc = "rewritten" =>
        /\ (arpabet_sequence = <<"H","H"," ","E","H","1"," ","L"," ","O","W","0">>
                => result = <<"j","e","l","o","u">>)
        /\ (arpabet_sequence = <<"T","H"," ","I","H","1"," ","N","G"," ","K">>
                => result = <<"z","i","n","k">>)

-----------------------------------------------------------------------------
(* Claims about the rewrite engine (SpecEngine)                            *)

\* C4 as stated: the engine applied to its own output returns that output.
C4_Idempotent == pc = "rewritten_twice" => result2 = result

PlainVowels == {"a", "e", "i", "o", "u"}

\* An output the second application leaves alone: no letter j, none of the
\* clusters the clean-up rewrites, and no final vowel + y.
Settled(s) ==
    /\ ~contains(s, <<"j">>)
    /\ ~contains(s, <<"n","g","k">>)
    /\ ~contains(s, <<"n","g","g">>)
    /\ ~contains(s, <<"i","i">>)
    /\ ~contains(s, <<"<i-acute>","i">>)
    /\ ~(Len(s) >= 2 /\ s[Len(s)] = "y" /\ s[Len(s) - 1] \in PlainVowels \cup Accents)

\* C4 amended: the engine applied to its own output returns that output when
\* the output holds no j, no ngk, ngg, ii or (i-acute)i, and does not end in a
\* vowel followed by y.
C4_IdempotentOnSettled ==
    (pc = "rewritten_twice" /\ Settled(result)) => result2 = result

\* C4 witness: an accented output with a digraph, rewritten a second time
\* without change.
C4_Witness ==
    /\ pc = "rewritten_twice"
    /\ contains(ipa, STRESS)
    /\ Settled(result)
    /\ contains(result, <<"<i-acute>","s","h">>)
    /\ result2 = result

-----------------------------------------------------------------------------
(* Claims about variant selection while loading (SpecLoad)                 *)

\* Occurrences of a token in a pronunciation, counted by position.
TokenCount(arpabet, token) ==
    Cardinality({i \in 1..Len(split(upper(arpabet))) : split(upper(arpabet))[i] = token})

\* Strictly lower score: fewer HH, or as many HH and fewer AH0.
LexLower(a, b) ==
    \/ TokenCount(a, HH) < TokenCount(b, HH)
    \/ /\ TokenCount(a, HH) = TokenCount(b, HH)
       /\ TokenCount(a, AH0) < TokenCount(b, AH0)

SameScore(a, b) ==
    /\ TokenCount(a, HH) = TokenCount(b, HH)
    /\ TokenCount(a, AH0) = TokenCount(b, AH0)

\* Line k of the corpus is an untagged line / a numbered alternate.
IsBaselineLine(k) == ~Skipped(corpus[k]) /\ ~IsVariant(corpus[k])

IsAlternateLine(k) == ~Skipped(corpus[k]) /\ IsVariant(corpus[k])

\* The word of line k has its untagged line before line k.
BaselinePrecedes(k) ==
    \E j \in 1..(k - 1) : IsBaselineLine(j) /\ Word(corpus[j]) = Word(corpus[k])

\* The loop consumes line line_no in this step.
ReadsLine ==
    /\ lpc = "reading"
    /\ line_no <= Len(corpus)
    /\ line_no' = line_no + 1

\* One step of the loop as C6 describes it.
C6_Step ==
    (ReadsLine /\ ~Skipped(corpus[line_no])) =>
        LET line == corpus[line_no]
            w    == Word(line)
        IN  IF ~IsVariant(line)
            THEN _dict'[w] = arpabet_to_ipa(Arpabet(line))
            ELSE BaselinePrecedes(line_no) =>
                 /\ _dict[w] = arpabet_to_ipa(_arpabet_cache[w])
                 /\ (_dict'[w] # _dict[w]) =>
                        /\ LexLower(Arpabet(line), _arpabet_cache[w])
                        /\ _dict'[w] = arpabet_to_ipa(Arpabet(line))
                 /\ SameScore(Arpabet(line), _arpabet_cache[w]) => _dict'[w] = _dict[w]

\* A word with no numbered alternate holds its (last) untagged line once read.
C6_Kept ==
    \A k \in 1..Len(corpus) :
        ( /\ IsBaselineLine(k)
          /\ \A j \in 1..Len(corpus) :
                 (~Skipped(corpus[j]) /\ Word(corpus[j]) = Word(corpus[k]))
                     => (~IsVariant(corpus[j]) /\ j <= k)
          /\ \/ lpc = "reading" /\ k < line_no
             \/ lpc = "idle" /\ runs >= 1 )
        => _dict[Word(corpus[k])] = arpabet_to_ipa(Arpabet(corpus[k]))

\* C6: while a corpus is loaded, the stored pronunciation of a word starts as
\* its untagged line; a numbered alternate that follows the untagged line
\* replaces the stored variant only when its score is strictly lower
\* (fewer HH, or as many HH and fewer AH0); an alternate of equal score
\* never replaces it; a word with only an untagged line keeps it.
C6_ReplaceOnlyWhenStrictlyLower == [][C6_Step]_vars /\ []C6_Kept

\* A tying alternate was passed over and a strictly lower one then stored.
C6_Witness ==
    /\ lpc = "reading"
    /\ corpus = <<BaseA, AltTie, AltLowerSecond>>
    /\ line_no = 4
    /\ _arpabet_cache[<<"a">>] = Arpabet(AltLowerSecond)
    /\ _dict[<<"a">>] = arpabet_to_ipa(Arpabet(AltLowerSecond))
    /\ _dict[<<"a">>] # arpabet_to_ipa(Arpabet(BaseA))

\* C7: for a word in the manual-override set the stored pronunciation is the
\* hand-specified one whatever the corpus holds: translate_word('saturday')
\* returns spanish 's<a-acute>terdei' for any corpus content (here: any corpus
\* that has a line for the word).
C7_SaturdayOverride ==
    ( /\ pc = "translated"
      /\ result.word = <<"s","a","t","u","r","d","a","y">>
      /\ \E k \in 1..Len(corpus) : corpus[k] = BaseSaturday )
        => result.spanish = Some(<<"s","<a-acute>","t","e","r","d","e","i">>)

\* The preference set: word -> target phoneme (a calendar day name and its
\* final diphthong).
PreferenceTarget == [w \in {<<"m","o","n","d","a","y">>} |-> <<"E","Y">>]

\* The pronunciation has the phoneme, with any stress digit.
HasPhoneme(arpabet, phoneme) ==
    \E i \in 1..Len(split(upper(arpabet))) :
        rstrip(split(upper(arpabet))[i], StressDigits) = phoneme

C8_Step ==
    (ReadsLine /\ IsAlternateLine(line_no)) =>
        LET line == corpus[line_no]
            w    == Word(line)
        IN  ( /\ w \in DOMAIN PreferenceTarget
              /\ w \in DOMAIN _arpabet_cache
              /\ HasPhoneme(Arpabet(line), PreferenceTarget[w])
              /\ ~HasPhoneme(_arpabet_cache[w], PreferenceTarget[w]) )
            => _dict'[w] = arpabet_to_ipa(Arpabet(line))

\* C8: for a word in the preference set, a numbered alternate that has the
\* word's target phoneme replaces a stored variant that does not have it,
\* even when the alternate's score is not strictly lower.
C8_PreferredAlternateReplaces == [][C8_Step]_vars

\* C9 (as stated): the score is a tuple of three counts.
C9_ThreeCounts == new_score # <<>> => Len(new_score) = 3

C9_Step ==
    (ReadsLine /\ IsAlternateLine(line_no)) =>
        LET arpabet == Arpabet(corpus[line_no])
            current == Get(_arpabet_cache, Word(corpus[line_no]), <<>>)
        IN  /\ new_score' = <<TokenCount(arpabet, HH), TokenCount(arpabet, AH0)>>
            /\ current_score' = <<TokenCount(current, HH), TokenCount(current, AH0)>>
            /\ (_arpabet_cache' # _arpabet_cache) <=> LexLower(arpabet, current)

\* C9 (amended): the score is a tuple of two counts, the occurrences of HH
\* and then the occurrences of AH0, compared in that order: the alternate
\* is stored exactly when it has fewer HH, or as many HH and fewer AH0.
C9_TwoCountsHhThenAh0 == [][C9_Step]_vars

\* Two scores that agree on HH were ordered by AH0, and the alternate stored.
C9_Witness ==
    /\ lpc = "reading"
    /\ line_no > 1
    /\ corpus[line_no - 1] = AltLowerSecond
    /\ current_score = <<1, 1>>
    /\ new_score = <<1, 0>>
    /\ _arpabet_cache[<<"a">>] = Arpabet(AltLowerSecond)

\* C10: a second run of _load_from_file over the same corpus on the same
\* store leaves every word with the stored pronunciation the first run left.
C10_SecondRunSameStore ==
    (lpc = "idle" /\ runs >= 2) =>
        /\ DOMAIN _dict = DOMAIN first_dict
        /\ \A w \in DOMAIN _dict : _dict[w] = first_dict[w]

\* Two runs completed over a corpus in which an alternate replaced the
\* untagged line.
C10_Witness ==
    /\ lpc = "idle"
    /\ runs = 2
    /\ \E k \in 1..Len(corpus) :
          /\ IsAlternateLine(k)
          /\ Word(corpus[k]) \in DOMAIN _arpabet_cache
          /\ _arpabet_cache[Word(corpus[k])] = Arpabet(corpus[k])
          /\ _dict[Word(corpus[k])] = arpabet_to_ipa(Arpabet(corpus[k]))
          /\ first_dict[Word(corpus[k])] = _dict[Word(corpus[k])]

-----------------------------------------------------------------------------
(* Claims about the shared store and its callers (SpecStore)               *)

\* C11: when several callers perform their first lookup at the same time,
\* the corpus is built at most once: at most one execution of
\* _load_from_file starts, and at most one download when the fetch succeeds.
C11_BuiltAtMostOnce == file_reads <= 1 /\ (net_ok => fetches <= 1)

\* Caller t takes a step.
Acts(t) == tpc'[t] # tpc[t]

\* The API call caller t is in (or is beginning) began with the store loaded.
AfterLoad(t) == IF tpc[t] = "idle" THEN _loaded ELSE began_loaded[t]

\* C12: once a load has completed, every step of an API call (lookup,
\* lookup_with_stress, translate_word, batch_translate, load without
\* force_download) made from then on leaves the mapping and the loaded flag
\* unchanged, reads no file and downloads nothing.
C12_ReadOnlyAfterLoad ==
    [][\A t \in Threads :
          (Acts(t) /\ AfterLoad(t)) =>
              /\ _dict' = _dict
              /\ _loaded' /\ _loaded
              /\ cache_file' = cache_file
              /\ file_reads' = file_reads
              /\ fetches' = fetches]_vars

\* A call that began after the load is inside load() via lookup_with_stress
\* and about to return, with nothing read for it.
C12_Witness ==
    \E t \in Threads :
        /\ began_loaded[t]
        /\ tpc[t] = "get"
        /\ todo[t] = <<"lookup_with_stress">>
        /\ _dict # EmptyDict
        /\ file_reads = 1

\* C13: with no cache file and a failing fetch, load raises RuntimeError to
\* its caller after exactly one fetch attempt, the store stays not loaded,
\* the mapping stays as it was and no cache file is read.
C13_FailedFetchRaises ==
    (cache_file = None /\ ~net_ok) =>
        /\ ~_loaded
        /\ _dict = EmptyDict
        /\ file_reads = 0
        /\ \A t \in Threads :
              /\ tpc[t] \notin {"read", "reading", "flag"}
              /\ (tpc[t] = "raise" \/ outcome[t] = "RuntimeError") => attempts[t] = 1
              /\ (tpc[t] = "idle" /\ calls[t] > 0) => outcome[t] = "RuntimeError"

\* A call has ended in RuntimeError after its fetch failed.
C13_Witness ==
    /\ cache_file = None
    /\ ~net_ok
    /\ \E t \in Threads :
          /\ outcome[t] = "RuntimeError"
          /\ tpc[t] = "idle"
          /\ attempts[t] = 1
          /\ fetches >= 1

-----------------------------------------------------------------------------
(* Claims about translate_word on a loaded store (SpecLoad)                *)

\* C14: with the corpus loaded, translate_word returns for a word the store
\* does not hold a record with the word as given, found False, ipa None and
\* spanish None; and in every record found is True exactly when ipa and
\* spanish are both values.
C14_NotFoundIsARecord ==
    pc = "translated" =>
        /\ result.word \in QueryWords
        /\ lower(result.word) \notin DOMAIN _dict =>
               result = [word |-> result.word, ipa |-> None, spanish |-> None,
                         found |-> FALSE]
        /\ result.found <=> (result.ipa # None /\ result.spanish # None)

\* A store that holds words was asked for one it does not hold, written in
\* upper case.
C14_Witness ==
    /\ pc = "translated"
    /\ runs >= 1
    /\ _dict # EmptyDict
    /\ <<"a">> \notin DOMAIN _dict
    /\ result.word = <<"A">>
    /\ ~result.found

-----------------------------------------------------------------------------
(* Claims about malformed corpus lines (SpecIngest)                        *)

\* A line as C15 describes it: empty, starting with ';;;', or a word with
\* no phoneme tokens after it.
Malformed(line) ==
    \/ strip(line) = <<>>
    \/ startswith(strip(line), <<";",";",";">>)
    \/ Len(split(line)) = 1

WellFormed(line) == ~Malformed(line)

C15_Step ==
    (ReadsLine /\ Malformed(corpus[line_no])) =>
        /\ _dict' = _dict
        /\ lpc' = "reading"

C15_Rest ==
    (lpc = "idle" /\ runs >= 1) =>
        _dict = load_from_file(EmptyDict, SelectSeq(corpus, WellFormed))

C15_Parsed ==
    pc = "parsed" =>
        \A k \in 1..Len(corpus) : Malformed(corpus[k]) => result[k] = None

\* C15: during ingestion an empty line, a line starting with ';;;' and a
\* line with a word but no phoneme tokens are passed over without an error
\* and without changing the mapping; the other lines of the file are
\* processed as if those lines were not there; parse_cmu_line returns None
\* for such lines.
C15_MalformedLinesSkipped == [][C15_Step]_vars /\ [](C15_Rest /\ C15_Parsed)

\* A file with a comment, a word-only line and then an entry was loaded and
\* parsed.
C15_Witness ==
    /\ pc = "parsed"
    /\ runs >= 1
    /\ corpus = <<CommentLine, WordOnlyLine, BaseA>>
    /\ DOMAIN _dict = {<<"a">>}
    /\ result[1] = None
    /\ result[2] = None
    /\ result[3] # None

-----------------------------------------------------------------------------
(* Claims about the mapper on arbitrary input (SpecPipe)                   *)

-----------------------------------------------------------------------------
(* Claims about translate_ipa (SpecIpa).                                   *)

LongI == LONG_VOWELS[1]
LongU == LONG_VOWELS[2]

HasLongVowel(s) == contains(s, LongI) \/ contains(s, LongU)

\* The leftmost position at which pat occurs in s (0 when it does not).
FirstAt(s, pat) ==
    IF \E i \in 1..Len(s) : MatchAt(s, i, pat)
    THEN CHOOSE i \in 1..Len(s) :
            MatchAt(s, i, pat) /\ \A j \in 1..(i - 1) : ~MatchAt(s, j, pat)
    ELSE 0

\* s with the sentinel put in front of position i.
SentinelBefore(s, i) == SubSeq(s, 1, i - 1) \o STRESS \o SubSeq(s, i, Len(s))

\* The long vowel that carries the default stress: the first i: if any,
\* otherwise the first u:.
DefaultCarrier(s) ==
    IF contains(s, LongI) THEN FirstAt(s, LongI) ELSE FirstAt(s, LongU)

\* C17: on an input without the primary-stress mark, translate_ipa hands the
\* engine the input with exactly one sentinel, placed before the first i: if
\* any and otherwise before the first u:, when the input has a long vowel,
\* and the input itself when it has none; the output then carries exactly one
\* accented letter in the first case and none in the second.
C17_OneSentinelOneAccent ==
    (pc = "done" /\ ~contains(ipa, PRIMARY_MARK)) =>
        IF HasLongVowel(ipa)
        THEN /\ engine_input(ipa) = SentinelBefore(ipa, DefaultCarrier(ipa))
             /\ Occurrences(engine_input(ipa), STRESS) = 1
             /\ AccentCount(result) = 1
        ELSE /\ engine_input(ipa) = ipa
             /\ AccentCount(result) = 0

IpaVowelLetters == {"i", "u", "o", "<small-cap-i>", "<epsilon>", "<upsilon>"}

\* The position of the first vowel letter after the mark (0 when none).
VowelAfterMark(s) ==
    LET m == FirstAt(s, PRIMARY_MARK)
        after == {i \in (m + 1)..Len(s) : s[i] \in IpaVowelLetters}
    IN IF m = 0 \/ after = {} THEN 0
       ELSE CHOOSE i \in after : \A j \in after : i <= j

\* s without its mark and with the sentinel in front of the vowel of the
\* syllable the mark opens.
StressOnSyllableVowel(s) ==
    LET m == FirstAt(s, PRIMARY_MARK)
        v == VowelAfterMark(s)
    IN SubSeq(s, 1, m - 1) \o SubSeq(s, m + 1, v - 1) \o STRESS
         \o SubSeq(s, v, Len(s))

Hello == <<"h", "<epsilon>", "<primary-mark>", "l", "o", "<upsilon>">>

\* C18: on an input with one primary-stress mark in front of the stressed
\* syllable, the output is the one the engine gives with the stress on that
\* syllable's vowel: it has an accented letter, and 'hE'loU' gives 'jelóu'.
C18_AccentOnMarkedSyllable ==
    (pc = "done" /\ Occurrences(ipa, PRIMARY_MARK) = 1 /\ VowelAfterMark(ipa) # 0) =>
        /\ result = ipa_to_spanish(StressOnSyllableVowel(ipa))
        /\ AccentCount(result) >= 1
        /\ ipa = Hello => result = <<"j", "e", "l", "<o-acute>", "u">>
-----------------------------------------------------------------------------
(* Claims about the fricatives and affricates (SpecSounds).                *)

Eth == <<"<eth>">>
This == <<"<eth>", "<small-cap-i>", "s">>
That == <<"<eth>", "<ash>", "t">>

\* C19: ipa_to_spanish renders the voiced dental fricative as 'z': every one
\* of the input is a 'z' of the output, and the three examples come out as
\* 'z', 'zis' and 'zat'.
C19_EthIsZ ==
    pc = "rewritten" =>
        /\ Occurrences(result, <<"z">>) = Occurrences(ipa, Eth)
        /\ ipa = Eth => result = <<"z">>
        /\ ipa = This => result = <<"z", "i", "s">>
        /\ ipa = That => result = <<"z", "a", "t">>

\* The text without its primary-stress marks, as compound rules see it.
Unmarked(s) == SelectSeq(s, LAMBDA x : x # "<primary-mark>")

DigraphSh == <<"s", "h">>
DigraphCh == <<"c", "h">>

\* Postalveolar fricatives that are not the second half of an affricate.
FreeFricatives(u) ==
    Cardinality({i \in 1..Len(u) :
        \/ u[i] = "<esh>" /\ ~(i > 1 /\ u[i - 1] = "t")
        \/ u[i] = "<ezh>" /\ ~(i > 1 /\ u[i - 1] = "d")})

AllFricatives(u) ==
    Cardinality({i \in 1..Len(u) :
        \/ u[i] = "<esh>" /\ ~(i > 1 /\ u[i - 1] = "t")
        \/ u[i] = "<ezh>"})

VoicedAffricate == <<"d", "<ezh>">>
VoicelessAffricate == <<"t", "<esh>">>

\* The text ends in a vowel followed by the voiced affricate.
EndsVowelAffricate(u) ==
    /\ Len(u) >= 3
    /\ SubSeq(u, Len(u) - 1, Len(u)) = VoicedAffricate
    /\ u[Len(u) - 2] \in {"<small-cap-i>", "<ash>"}

NoBrokenDigraph(s) ==
    /\ Occurrences(s, <<"s", "j">>) = 0
    /\ Occurrences(s, <<"c", "j">>) = 0

-----------------------------------------------------------------------------
(* Claims about the voiced affricate (SpecAffricate).                      *)

AffricateGlide == <<"d", "<ezh>", "j">>

\* C21: a glide j directly after the voiced affricate is deleted: an input
\* containing the affricate followed by j gives the output of the same input
\* with the affricate alone (the glide gives no letter 'i').
C21_GlideAfterAffricateDeleted ==
    (pc = "rewritten" /\ contains(ipa, AffricateGlide)) =>
        result = ipa_to_spanish(replace(ipa, AffricateGlide, VoicedAffricate))

\* The text without the sentinel.
Unstressed(s) == replace(s, STRESS, <<>>)

\* Positions of the voiced affricate in u.
AffricateAt(u) == {i \in 1..Len(u) : MatchAt(u, i, VoicedAffricate)}

\* C22: the voiced affricate is written 'ch' when the next input symbol is
\* a consonant and 'y' when it is a vowel; 'vegetable' gives 'vechtabal'
\* with the accent on the e.
C22_AffricateBeforeConsonantIsCh ==
    pc = "rewritten" =>
        LET u == Unstressed(ipa)
            beforeT == {i \in AffricateAt(u) : i + 2 <= Len(u) /\ u[i + 2] = "t"}
        IN /\ Occurrences(result, DigraphCh) = Cardinality(beforeT)
           /\ ipa = Vegetable =>
                result = <<"v", "<e-acute>", "c", "h", "t", "a", "b", "a", "l">>

\* u ends with the voiced affricate.
EndsInAffricate(u) ==
    Len(u) >= 2 /\ SubSeq(u, Len(u) - 1, Len(u)) = VoicedAffricate

\* The character before the final affricate ("" when there is none).
BeforeFinal(u) == IF Len(u) >= 3 THEN u[Len(u) - 2] ELSE ""

WrittenYOrFinalSh(final) ==
    LET u == Unstressed(ipa)
        n == IF final THEN 1 ELSE 0
    IN /\ endswith(result, DigraphSh) <=> final
       /\ Occurrences(result, DigraphSh) = Occurrences(u, <<"<esh>">>) + n
       /\ Occurrences(result, <<"y">>) = Cardinality(AffricateAt(u)) - n

\* C23 (as stated): when the input ends with a vowel, accented or not,
\* directly followed by the voiced affricate, the output ends with 'sh' in
\* place of 'y'; an affricate that is not at the end, or that follows a
\* consonant at the end, is written 'y'.
C23_FinalAffricateAfterVowel ==
    pc = "rewritten" =>
        WrittenYOrFinalSh(
            /\ EndsInAffricate(Unstressed(ipa))
            /\ BeforeFinal(Unstressed(ipa)) \in {"<small-cap-i>", "<rhotic-epsilon>"})

\* C23 (amended): when the input ends with the voiced affricate and what
\* precedes it is spelled with a final vowel letter (a vowel other than the
\* r-coloured ones, accented or not, or the glide j), the output ends with
\* 'sh' in place of 'y'; every other voiced affricate is written 'y'.
C23_FinalAffricateAfterVowelLetter ==
    pc = "rewritten" =>
        WrittenYOrFinalSh(
            /\ EndsInAffricate(Unstressed(ipa))
            /\ BeforeFinal(Unstressed(ipa)) \in {"<small-cap-i>", "j"})

C23_Witness ==
    /\ pc = "rewritten"
    /\ ipa = STRESS \o <<"e", "<small-cap-i>", "d", "<ezh>">>
    /\ result = <<"<e-acute>", "i", "s", "h">>
-----------------------------------------------------------------------------
(* Claims about the final clean-up and the placeholders.                   *)

UnsimplifiedClusters == {
    <<"n","g","k">>, <<"n","g","g">>, <<"i","i">>, <<"<i-acute>","i">> }

\* C24: the output of ipa_to_spanish contains none of the clusters 'ngk',
\* 'ngg', 'ii' and 'íi' (SpecEngine).
C24_NoUnsimplifiedCluster ==
    pc # "mapped" => \A c \in UnsimplifiedClusters : ~contains(result, c)
PlaceholderTexts == {
    STRESS, A_MARK, lower(A_MARK), TEMP_J, TEMP_SH, TEMP_CH, <<"~">> }

\* C25: on an intermediate string with at most one sentinel the output of
\* ipa_to_spanish contains no placeholder text (no sentinel, no accent
\* marker, no temporary marker, no '~'), and a symbol no rule matches is
\* emitted as it is (SpecMarkers).
C25_NoPlaceholderLeft ==
    pc = "rewritten" =>
        /\ \A m \in PlaceholderTexts : ~contains(result, m)
        /\ Occurrences(result, <<"q">>) = Occurrences(ipa, <<"q">>)
        /\ ipa = <<"i">> => result = <<"i">>

C25_Witness ==
    /\ pc = "rewritten"
    /\ ipa = <<"q", "j">> \o STRESS \o <<"<small-cap-i>">>
    /\ result = <<"q", "i", "<i-acute>">>
-----------------------------------------------------------------------------
(* Claims about HH (SpecAspirate).                                         *)

\* C26: every HH token of a table token sequence is exactly one letter 'j'
\* of the final output, whatever its neighbours are, also directly after
\* an S or a P token.
C26_EveryHhIsJ ==
    pc = "rewritten" =>
        Occurrences(result, <<"j">>) =
            Cardinality({i \in 1..Len(Tokens) : Tokens[i] = HH})
-----------------------------------------------------------------------------
(* Claims about words without a baseline line (SpecLoad).                  *)

\* Every line of the corpus for word w is a numbered alternate, and there is
\* at least one.
OnlyAlternates(w) ==
    /\ \E k \in 1..Len(corpus) : IsAlternateLine(k) /\ Word(corpus[k]) = w
    /\ \A k \in 1..Len(corpus) : ~(IsBaselineLine(k) /\ Word(corpus[k]) = w)

\* C29: a word whose corpus lines are all numbered alternates is never
\* stored by the loader: lookup of it returns None and translate_word
\* reports found False.  (Stated by contraposition: a word that is stored,
\* looked up with a value or reported found has a line that is not a
\* numbered alternate, or no line at all.)
C29_AlternatesAloneNeverStored ==
    \A w \in {lower(q) : q \in QueryWords} :
        (\/ w \in DOMAIN _dict
         \/ lookup(_dict, w) # None
         \/ lookup_with_stress(_dict, w) # None
         \/ /\ pc = "translated"
            /\ lower(result.word) = w
            /\ (result.found \/ result.ipa # None \/ result.spanish # None))
            => ~OnlyAlternates(w)

C29_Witness ==
    /\ pc = "translated"
    /\ runs = 2
    /\ lpc = "idle"
    /\ OnlyAlternates(<<"m","o","n","d","a","y">>)
    /\ result.word = <<"m","o","n","d","a","y">>
    /\ ~result.found
-----------------------------------------------------------------------------
(* Claims about lookups next to a running load (SpecStore, SpecForce).     *)

\* The mapping variant selection gives for the corpus.
Canonical == load_from_file(EmptyDict, corpus)

StoreWords == {<<"a">>, <<"m","o","n","d","a","y">>}

\* Caller t is about to read the mapping for a lookup.
AboutToGet(t) ==
    /\ tpc[t] = "get"
    /\ Head(todo[t]) \in {"lookup", "lookup_with_stress"}

\* C27: once a load has completed, every lookup returns for every word the
\* pronunciation of its canonical variant, also while callers that began
\* their first lookup at the same time are still loading; no lookup sees a
\* pronunciation that variant selection rejected.
C27_LookupsSeeCanonical ==
    \A t \in Threads :
        (_loaded /\ AboutToGet(t)) =>
            \A w \in StoreWords :
                /\ lookup_with_stress(_dict, w) = lookup_with_stress(Canonical, w)
                /\ lookup(_dict, w) = lookup(Canonical, w)
\* Caller t is inside load(force_download=True), called on a loaded store.
ForcedOnLoaded(t) ==
    /\ tpc[t] # "idle"
    /\ todo[t] = <<"load_force">>
    /\ began_loaded[t]

\* C28: when load(force_download=True) is called on a loaded store and the
\* download fails, the call makes one fetch attempt and raises RuntimeError,
\* and none of its steps changes the mapping or the loaded flag or reads a
\* file; a call made afterwards without force_download downloads nothing
\* (SpecForce).
C28_FailedForcedLoadKeepsStore ==
    [][\A t \in Threads :
          /\ (Acts(t) /\ ForcedOnLoaded(t) /\ ~net_ok) =>
                /\ _dict' = _dict
                /\ _loaded /\ _loaded'
                /\ file_reads' = file_reads
                /\ tpc'[t] \in {"load", "exists", "download", "raise", "idle"}
                /\ tpc[t] = "download" => (tpc'[t] = "raise" /\ attempts[t] = 0)
                /\ tpc'[t] = "idle" =>
                      (tpc[t] = "raise" /\ outcome'[t] = "RuntimeError")
          /\ (Acts(t) /\ _loaded /\ ~ForcedOnLoaded(t)
                /\ (tpc[t] = "idle" => todo'[t] # <<"load_force">>)
                /\ (tpc[t] # "idle" => began_loaded[t])) =>
                fetches' = fetches]_vars

\* A forced load on the loaded store has ended in RuntimeError, and the
\* caller that loaded the store is about to read the mapping again.
C28_Witness ==
    \E t, u \in Threads :
        /\ t # u
        /\ _loaded
        /\ ~net_ok
        /\ outcome[t] = "RuntimeError"
        /\ began_loaded[t]
        /\ tpc[t] = "idle"
        /\ attempts[t] = 1
        /\ fetches = 1
        /\ file_reads = 1
        /\ _dict = Canonical
        /\ tpc[u] = "get"
        /\ todo[u] = <<"lookup_with_stress">>

====
